---- MODULE Spec2Model ----
(***************************************************************************)
(* Comparable-property valuation engine of src/main.py.                    *)
(*                                                                         *)
(* Units.  Python floats are modelled by scaled integers:                  *)
(*   - acreages (and raw lot areas given in acres) are in 1/AcreScale acre *)
(*   - the two acreage ratios are in 1/RatioScale                          *)
(*   - prices are whole dollars, price_per_acre is dollars per acre        *)
(*   - radii are whole miles (all radius constants of the source are       *)
(*     integral floats)                                                    *)
(* The inputs are drawn so that every quotient the code computes is exact  *)
(* in these units; floating-point rounding is outside the model.           *)
(***************************************************************************)
EXTENDS Integers, Sequences, FiniteSets, TLC

\* ------------------------------------------------------------------------
\* Program constants (src/main.py:49-54, 1842, 1870)
\* ------------------------------------------------------------------------
INITIAL_SEARCH_RADIUS_MILES == 3
MAX_SEARCH_RADIUS_MILES == 10
SEARCH_RADIUS_INCREMENT == 1
MIN_COMPARABLE_PROPERTIES == 3
\* 0.2 and 5.0, in 1/RatioScale
MIN_ACREAGE_RATIO == 2
MAX_ACREAGE_RATIO == 50
RatioScale == 10
\* acreages are held in tenths of an acre
AcreScale == 10
SQFT_PER_ACRE == 43560
max_pages == 2
\* len(values) < 4 skips the IQR analysis
MIN_IQR_VALUES == 4

\* Python's None, for the fields that may be None (price, price_per_acre,
\* acreage, lotAreaValue, zpid)
None == 0 - 1000000

\* ------------------------------------------------------------------------
\* Bounds of the model
\* ------------------------------------------------------------------------
\* number of distinct addresses the sales API knows
NumAddresses == 4
\* length of the lists given to filter_properties_by_acreage
MaxFilterLen == 3
\* length of the lists given to detect_outliers_iqr
MaxOutlierLen == 5
\* length of the lists given to calculate_property_value
MaxValueLen == 4
\* number of ids given to fetch_price_history_parallel
MaxBackfill == 3
\* number of raw records on the page given to the normaliser
MaxNormalizeLen == 2
\* number of calls of valuate_property
NumRequests == 2
\* RateLimiter(calls_per_minute = ...): the limit of the limiter checked
calls_per_minute == 2
\* the clock of the rate limiter advances MaxTicks times by TickSeconds
MaxTicks == 3
\* the clock of the browser pool advances MaxPoolTicks times by
\* PoolTickSeconds
MaxPoolTicks == 4
\* number of browsers the pool creates
MaxBrowsers == 3

\* ------------------------------------------------------------------------
\* Generic helpers
\* ------------------------------------------------------------------------
Range(s) == {s[i] : i \in 1..Len(s)}

SeqsUpTo(S, n) == UNION {[1..k -> S] : k \in 0..n}

\* ------------------------------------------------------------------------
\* Raw records of the sales API and their normalisation
\* (fetch_zillow_data, the body of "for property_data in data.get('props')")
\* ------------------------------------------------------------------------
Raw(addr, price, lot, unit, zpid) ==
    [streetAddress |-> addr, price |-> price, lotAreaValue |-> lot,
     lotAreaUnit |-> unit, zpid |-> zpid]

\* Python truthiness of an optional number: None and 0 are falsy
Truthy(x) == x # None /\ x # 0

\* str.lower() on the unit strings the API is taken to send
Lower(unit) == IF unit = "SQFT" THEN "sqft" ELSE unit

\* variant: the lot area is used as it comes, whatever the unit
LotAcresNoConversion(property_data) == property_data.lotAreaValue

\* lot_acres after the unit conversion
LotAcres(property_data) ==
    IF Lower(property_data.lotAreaUnit) = "sqft"
    THEN (property_data.lotAreaValue * AcreScale) \div SQFT_PER_ACRE
    ELSE property_data.lotAreaValue

\* price / acreage, in dollars per acre
PricePerAcre(price, acreage) == (price * AcreScale) \div acreage

\* "if not lot_acres or not zpid: continue"
Skipped(property_data) ==
    ~Truthy(property_data.lotAreaValue) \/ ~Truthy(property_data.zpid)

\* property_dict
PropertyDict(property_data) ==
    LET price == property_data.price
        lot_acres == LotAcres(property_data)
    IN  [address |-> property_data.streetAddress,
         price |-> IF Truthy(price) THEN price ELSE None,
         acreage |-> lot_acres,
         price_per_acre |-> IF Truthy(price) /\ lot_acres > 0
                            THEN PricePerAcre(price, lot_acres) ELSE None,
         zpid |-> property_data.zpid]

\* one page of props appended to (all_homes, potential_homes)
RECURSIVE ProcessProps(_, _, _)
ProcessProps(props, all, potential) ==
    IF props = <<>> THEN <<all, potential>>
    ELSE LET property_data == Head(props)
         IN  IF Skipped(property_data)
             THEN ProcessProps(Tail(props), all, potential)
             ELSE IF Truthy(property_data.price)
                  THEN ProcessProps(Tail(props),
                                    Append(all, PropertyDict(property_data)),
                                    potential)
                  ELSE ProcessProps(Tail(props), all,
                                    Append(potential, PropertyDict(property_data)))

\* A response of the API for one page: ok = FALSE is any exception of the
\* request (connection error, HTTP error status, invalid JSON).
Min(a, b) == IF a <= b THEN a ELSE b

\* the while loop of fetch_zillow_data; total_pages = None before the first
\* successful page; responses[i] is the API's answer for page i
RECURSIVE FetchPages(_, _, _, _, _)
FetchPages(responses, current_page, total_pages, all, potential) ==
    IF ~((total_pages = None \/ current_page <= total_pages)
         /\ current_page <= max_pages)
    THEN <<all, potential>>
    ELSE LET data == responses[current_page]
         IN  IF ~data.ok
             THEN <<all, potential>>
             ELSE LET tp == IF total_pages = None
                            THEN Min(data.totalPages, max_pages)
                            ELSE total_pages
                      acc == ProcessProps(data.props, all, potential)
                  IN  FetchPages(responses, current_page + 1, tp,
                                 acc[1], acc[2])

fetch_zillow_data(responses) ==
    FetchPages(responses, 1, None, <<>>, <<>>)

\* ------------------------------------------------------------------------
\* filter_properties_by_acreage
\* ------------------------------------------------------------------------
\* variant: the upper bound of the band is exclusive
InBandUpperExclusive(acreage, target_acreage) ==
    /\ target_acreage * MIN_ACREAGE_RATIO <= acreage * RatioScale
    /\ acreage * RatioScale < target_acreage * MAX_ACREAGE_RATIO

\* min_acreage <= prop["acreage"] <= max_acreage
InBand(acreage, target_acreage) ==
    /\ target_acreage * MIN_ACREAGE_RATIO <= acreage * RatioScale
    /\ acreage * RatioScale <= target_acreage * MAX_ACREAGE_RATIO

filter_properties_by_acreage(properties, target_acreage) ==
    LET Keep(prop) == /\ prop.acreage # None
                      /\ InBand(prop.acreage, target_acreage)
    IN  SelectSeq(properties, Keep)

\* ------------------------------------------------------------------------
\* list({prop['address']: prop for prop in homes}.values()):
\* a dict comprehension keeps the position of the first record of an
\* address and the value of the last one
\* ------------------------------------------------------------------------
\* variant: a record of an address already present is ignored
DictPutKeepFirst(d, prop) ==
    IF \E i \in 1..Len(d) : d[i].address = prop.address
    THEN d
    ELSE Append(d, prop)

DictPut(d, prop) ==
    IF \E i \in 1..Len(d) : d[i].address = prop.address
    THEN [i \in 1..Len(d) |->
            IF d[i].address = prop.address THEN prop ELSE d[i]]
    ELSE Append(d, prop)

RECURSIVE DictOf(_, _)
DictOf(homes, d) ==
    IF homes = <<>> THEN d
    ELSE DictOf(Tail(homes), DictPut(d, Head(homes)))

DedupByAddress(homes) == DictOf(homes, <<>>)

\* ------------------------------------------------------------------------
\* detect_outliers_iqr
\* ------------------------------------------------------------------------
HasPricePerAcre(prop) == prop.price_per_acre # None

\* [prop[price_key] for prop in properties if ... is not None]
RECURSIVE PricePerAcreValues(_)
PricePerAcreValues(properties) ==
    IF properties = <<>> THEN <<>>
    ELSE IF HasPricePerAcre(Head(properties))
         THEN <<Head(properties).price_per_acre>>
                 \o PricePerAcreValues(Tail(properties))
         ELSE PricePerAcreValues(Tail(properties))

Sorted(values) == SortSeq(values, LAMBDA a, b : a < b)

\* 4 * np.percentile(values, 25 * k) for k = 1, 3 (linear interpolation
\* between the two closest ranks): the virtual index is (n - 1) * k / 4
Percentile4(values, k) ==
    LET v == Sorted(values)
        n == Len(v)
        lo == ((n - 1) * k) \div 4
        fr == ((n - 1) * k) % 4
    IN  IF fr = 0 THEN 4 * v[lo + 1]
        ELSE 4 * v[lo + 1] + fr * (v[lo + 2] - v[lo + 1])

\* 8 * lower_bound and 8 * upper_bound
LowerBound8(values) ==
    LET q1 == Percentile4(values, 1)
        q3 == Percentile4(values, 3)
    IN  2 * q1 - 3 * (q3 - q1)

UpperBound8(values) ==
    LET q1 == Percentile4(values, 1)
        q3 == Percentile4(values, 3)
    IN  2 * q3 + 3 * (q3 - q1)

\* variant: a value on a bound counts as outside
WithinBoundsStrict(ppa, values) ==
    LowerBound8(values) < 8 * ppa /\ 8 * ppa < UpperBound8(values)

\* lower_bound <= prop[price_key] <= upper_bound
WithinBounds(ppa, values) ==
    LowerBound8(values) <= 8 * ppa /\ 8 * ppa <= UpperBound8(values)

\* variant: a sale without price_per_acre is kept as valid
RECURSIVE ClassifyKeepsNull(_, _, _, _)
ClassifyKeepsNull(properties, values, valid, outliers) ==
    IF properties = <<>> THEN <<valid, outliers>>
    ELSE LET prop == Head(properties)
         IN  IF HasPricePerAcre(prop)
                   /\ ~WithinBounds(prop.price_per_acre, values)
             THEN ClassifyKeepsNull(Tail(properties), values,
                                    valid, Append(outliers, prop))
             ELSE ClassifyKeepsNull(Tail(properties), values,
                                    Append(valid, prop), outliers)

\* the partition loop of lines 2001-2006
RECURSIVE Classify(_, _, _, _)
Classify(properties, values, valid, outliers) ==
    IF properties = <<>> THEN <<valid, outliers>>
    ELSE LET prop == Head(properties)
         IN  IF HasPricePerAcre(prop)
             THEN IF WithinBounds(prop.price_per_acre, values)
                  THEN Classify(Tail(properties), values,
                                Append(valid, prop), outliers)
                  ELSE Classify(Tail(properties), values,
                                valid, Append(outliers, prop))
             ELSE Classify(Tail(properties), values, valid, outliers)

\* variant: the IQR analysis is skipped below 3 values only
detect_outliers_iqr_min3(properties) ==
    IF properties = <<>> THEN <<(<<>>), (<<>>)>>
    ELSE LET values == PricePerAcreValues(properties)
         IN  IF Len(values) < MIN_IQR_VALUES - 1
             THEN <<properties, (<<>>)>>
             ELSE Classify(properties, values, <<>>, <<>>)

\* returns <<valid_properties, outlier_properties>>
detect_outliers_iqr(properties) ==
    IF properties = <<>> THEN <<(<<>>), (<<>>)>>
    ELSE LET values == PricePerAcreValues(properties)
         IN  IF Len(values) < MIN_IQR_VALUES
             THEN <<properties, (<<>>)>>
             ELSE Classify(properties, values, <<>>, <<>>)

\* comparable_count of calculate_property_value: 0 for an empty list,
\* len(comparable_properties) otherwise
comparable_count(comparable_properties) ==
    IF comparable_properties = <<>> THEN 0 ELSE Len(comparable_properties)

\* ------------------------------------------------------------------------
\* calculate_property_value.  The statistics are exact rationals num / den;
\* std_dev is held by its square (the sample variance).  A field that is
\* None in Python is NoValue, price_per_acre_stats = None is NoStats.
\* ------------------------------------------------------------------------
Rat(n, d) == [num |-> n, den |-> d]

NoValue == Rat(None, 1)

NoStats ==
    [min |-> None, max |-> None, avg |-> NoValue, median |-> NoValue,
     std_dev_sq |-> NoValue]

RECURSIVE Sum(_)
Sum(values) ==
    IF values = <<>> THEN 0 ELSE Head(values) + Sum(Tail(values))

RECURSIVE SumOfSquares(_)
SumOfSquares(values) ==
    IF values = <<>> THEN 0
    ELSE Head(values) * Head(values) + SumOfSquares(Tail(values))

\* statistics.mean
Mean(values) == Rat(Sum(values), Len(values))

\* variant: the middle of the list as given, not of the sorted list
MedianUnsorted(values) ==
    LET n == Len(values)
    IN  IF n = 1 THEN Rat(values[1], 1)
        ELSE IF n % 2 = 1 THEN Rat(values[(n \div 2) + 1], 1)
        ELSE Rat(values[n \div 2] + values[(n \div 2) + 1], 2)

\* values[0] for one value, statistics.median otherwise
Median(values) ==
    LET n == Len(values)
        data == Sorted(values)
    IN  IF n = 1 THEN Rat(values[1], 1)
        ELSE IF n % 2 = 1 THEN Rat(data[(n \div 2) + 1], 1)
        ELSE Rat(data[n \div 2] + data[(n \div 2) + 1], 2)

\* variant: the sample variance is taken of a single value too
StdDevSqUnguarded(values) ==
    LET n == Len(values)
    IN  Rat(n * SumOfSquares(values) - Sum(values) * Sum(values),
            n * (n - 1))

\* statistics.stdev(values) ** 2 if len(values) > 1 else 0
StdDevSq(values) ==
    LET n == Len(values)
    IN  IF n > 1
        THEN Rat(n * SumOfSquares(values) - Sum(values) * Sum(values),
                 n * (n - 1))
        ELSE Rat(0, 1)

\* a price per acre times the target acreage (held in 1/AcreScale acre)
TimesAcreage(r, target_acreage) ==
    Rat(r.num * target_acreage, r.den * AcreScale)

\* variant: without a usable price_per_acre the count is reported as 0
calculate_property_value_count0(target_acreage, comparable_properties) ==
    LET values == PricePerAcreValues(comparable_properties)
    IN  IF comparable_properties = <<>> \/ values = <<>>
        THEN [estimated_value_avg |-> NoValue,
              estimated_value_median |-> NoValue,
              price_per_acre_stats |-> NoStats,
              comparable_count |-> 0]
        ELSE [estimated_value_avg |-> TimesAcreage(Mean(values), target_acreage),
              estimated_value_median |->
                  TimesAcreage(Median(values), target_acreage),
              price_per_acre_stats |->
                  [min |-> Sorted(values)[1],
                   max |-> Sorted(values)[Len(values)],
                   avg |-> Mean(values),
                   median |-> Median(values),
                   std_dev_sq |-> StdDevSq(values)],
              comparable_count |-> Len(comparable_properties)]

calculate_property_value(target_acreage, comparable_properties) ==
    LET values == PricePerAcreValues(comparable_properties)
    IN  IF comparable_properties = <<>>
        THEN [estimated_value_avg |-> NoValue,
              estimated_value_median |-> NoValue,
              price_per_acre_stats |-> NoStats,
              comparable_count |-> 0]
        ELSE IF values = <<>>
        THEN [estimated_value_avg |-> NoValue,
              estimated_value_median |-> NoValue,
              price_per_acre_stats |-> NoStats,
              comparable_count |-> Len(comparable_properties)]
        ELSE [estimated_value_avg |-> TimesAcreage(Mean(values), target_acreage),
              estimated_value_median |->
                  TimesAcreage(Median(values), target_acreage),
              price_per_acre_stats |->
                  [min |-> Sorted(values)[1],
                   max |-> Sorted(values)[Len(values)],
                   avg |-> Mean(values),
                   median |-> Median(values),
                   std_dev_sq |-> StdDevSq(values)],
              comparable_count |-> Len(comparable_properties)]

\* ------------------------------------------------------------------------
\* fetch_price_history and fetch_price_history_parallel
\* ------------------------------------------------------------------------
\* What one lookup meets: the task raises before its try block ("raised"),
\* the property API answers 429, the request fails (connection error,
\* timeout, HTTP error status, invalid JSON), or the API answers with a price
\* history, a list of event prices
LookupOutcomes ==
    { [kind |-> "raised", history |-> <<>>],
      [kind |-> "rate_limited", history |-> <<>>],
      [kind |-> "error", history |-> <<>>],
      [kind |-> "ok", history |-> <<>>],
      [kind |-> "ok", history |-> <<0>>],
      [kind |-> "ok", history |-> <<None, 3000, 2500>>] }

\* "for event in price_history: if price and price > 0: return float(price)"
RECURSIVE FirstPositivePrice(_)
FirstPositivePrice(history) ==
    IF history = <<>> THEN None
    ELSE IF Truthy(Head(history)) /\ Head(history) > 0 THEN Head(history)
    ELSE FirstPositivePrice(Tail(history))

\* the single attempt of fetch_price_history (max_retries = 1); a task that
\* raised has no return value
fetch_price_history(lookup) ==
    IF lookup.kind = "rate_limited" THEN None
    ELSE IF lookup.kind = "error" THEN None
    ELSE FirstPositivePrice(lookup.history)

\* "result = future.result(timeout=12)" and its except branch
FutureResult(lookup) ==
    IF lookup.kind = "raised" THEN None ELSE fetch_price_history(lookup)

\* variant: a lookup without a price leaves no entry
CollectSkipsNone(results, zpid, value) ==
    IF value = None THEN results
    ELSE [z \in DOMAIN results \cup {zpid} |->
             IF z = zpid THEN value ELSE results[z]]

\* results[zpid] = result
Collect(results, zpid, value) ==
    [z \in DOMAIN results \cup {zpid} |->
        IF z = zpid THEN value ELSE results[z]]

\* ------------------------------------------------------------------------
\* find_comparable_properties: the price backfill of lines 2097-2120
\* ------------------------------------------------------------------------
\* variant: the backfill does not look at the number of priced sales
BackfillNeededAlways(filtered) == TRUE

\* if len(filtered_homes) < MIN_COMPARABLE_PROPERTIES
BackfillNeeded(filtered) == Len(filtered) < MIN_COMPARABLE_PROPERTIES

\* zpids_to_fetch, as the set of keys of the dict returned by
\* fetch_price_history_parallel
ZpidsToFetch(potential_filtered) ==
    {potential_filtered[i].zpid : i \in
        {j \in 1..Len(potential_filtered) : Truthy(potential_filtered[j].zpid)}}

\* variant: the price is stored, the price per acre is left as it was
WithPriceStalePpa(prop, price) == [prop EXCEPT !.price = price]

\* the potential sale after "prop['price'] = price; prop['price_per_acre'] = ..."
WithPrice(prop, price) ==
    [prop EXCEPT !.price = price,
                 !.price_per_acre = IF prop.acreage > 0
                                    THEN PricePerAcre(price, prop.acreage)
                                    ELSE None]

\* variant: the loop never stops early
BackfillNeverFull(filtered) == FALSE

\* "if len(filtered_homes) >= MIN_COMPARABLE_PROPERTIES: break"
BackfillFull(filtered) == Len(filtered) >= MIN_COMPARABLE_PROPERTIES

\* "for prop in potential_filtered": results maps each zpid to a price or None
RECURSIVE ApplyResults(_, _, _)
ApplyResults(potential_filtered, results, filtered) ==
    IF potential_filtered = <<>> THEN filtered
    ELSE IF BackfillFull(filtered) THEN filtered
    ELSE LET prop == Head(potential_filtered)
         IN  IF /\ Truthy(prop.zpid)
                /\ prop.zpid \in DOMAIN results
                /\ Truthy(results[prop.zpid])
             THEN ApplyResults(Tail(potential_filtered), results,
                               Append(filtered,
                                      WithPrice(prop, results[prop.zpid])))
             ELSE ApplyResults(Tail(potential_filtered), results, filtered)

\* variant: the final radius is not clamped to the maximum
FinalRadiusUnclamped(radius) == radius

\* final_radius = search_radius if search_radius <= MAX else MAX
FinalRadius(radius) ==
    IF radius <= MAX_SEARCH_RADIUS_MILES THEN radius
    ELSE MAX_SEARCH_RADIUS_MILES

\* variant: the radius is not advanced
NextRadiusStuck(radius) == radius

\* search_radius += SEARCH_RADIUS_INCREMENT
NextRadius(radius) == radius + SEARCH_RADIUS_INCREMENT

\* variant: the dict pass is left out
AccumulateNoDedup(homes, new) == homes \o new

\* all_homes.extend(new); all_homes = list({...}.values())
Accumulate(homes, new) == DedupByAddress(homes \o new)

\* variant: the termination check counts the newest fetch only
CheckedHomesNewest(accumulated, fetched) == fetched

\* the homes the termination check of line 2084 counts
CheckedHomes(accumulated, fetched) == accumulated

\* variant: a fetch overwrites the accumulated list when a page failed
AfterFetchReset(homes, new, failed) ==
    IF failed # 0 THEN DedupByAddress(new) ELSE Accumulate(homes, new)

\* the accumulated list after a fetch: the loop does not look at whether a
\* page failed, fetch_zillow_data returns what the pages before the failure
\* gave
AfterFetch(homes, new, failed) == Accumulate(homes, new)

\* variant: a search that found too few comparables returns none
FinalPartitionDiscard(filtered) ==
    IF Len(filtered) < MIN_COMPARABLE_PROPERTIES THEN <<(<<>>), (<<>>)>>
    ELSE IF Len(filtered) < MIN_IQR_VALUES THEN <<filtered, (<<>>)>>
    ELSE detect_outliers_iqr(filtered)

\* "if len(filtered_homes) < 4: valid = filtered_homes; outliers = []"
FinalPartition(filtered) ==
    IF Len(filtered) < MIN_IQR_VALUES THEN <<filtered, (<<>>)>>
    ELSE detect_outliers_iqr(filtered)

\* ------------------------------------------------------------------------
\* _process_valuation: the response built from the result of the search
\* ------------------------------------------------------------------------
\* no response yet
NoResponse ==
    [status |-> 0, comparable_properties |-> <<>>,
     outlier_properties |-> <<>>,
     valuation |-> calculate_property_value(0, <<>>)]

\* raise HTTPException(status_code = status)
HttpError(status) == [NoResponse EXCEPT !.status = status]

\* ComparableProperty(**prop): price and price_per_acre are required floats
ValidComparable(prop) == prop.price # None /\ prop.price_per_acre # None

AllValidComparable(properties) ==
    \A i \in 1..Len(properties) : ValidComparable(properties[i])

\* the ValuationResponse returned with status 200
ValuationResponse(target, comparable, outliers) ==
    [status |-> 200, comparable_properties |-> comparable,
     outlier_properties |-> outliers,
     valuation |-> calculate_property_value(target, comparable)]

\* lines 2221-2254, parcel resolved by Regrid: the outlier list of the search
\* is dropped ("comparable_properties, _, ..."), an empty valid list raises
\* 404, outlier_properties = []
RegridResponse(target, valid, outliers) ==
    IF valid = <<>> THEN HttpError(404)
    ELSE IF ~AllValidComparable(valid) THEN HttpError(500)
    ELSE ValuationResponse(target, valid, <<>>)

\* lines 2332-2361, parcel resolved by PropStream; an exception of the
\* response construction becomes HTTPException 500 (lines 2378-2381)
PropStreamResponse(target, valid, outliers) ==
    IF ~(AllValidComparable(valid) /\ AllValidComparable(outliers))
    THEN HttpError(500)
    ELSE ValuationResponse(target, valid, outliers)

\* ------------------------------------------------------------------------
\* State
\* ------------------------------------------------------------------------
VARIABLES
    pc,                     \* "Searching", "Found", "Exhausted", "Returned"
    target_acreage,
    search_radius,
    final_radius,
    all_homes,
    potential_homes,
    fetch_failed,           \* page at which the latest fetch failed, or 0
    last_radius,            \* radius of the latest fetch
    seen,                   \* per address, in the order of first sight: the
                            \*   first and the last priced record fetched
    fetches,                \* number of loop iterations run
    outcome,                \* how the loop ended: "Found" / "Exhausted"
    price_results,          \* the dict returned by the parallel backfill
    filtered_homes,
    valid_properties,
    outlier_properties,
    total_comparables_found,
    path,                   \* how the parcel was resolved: "none" until the
                            \*   response is built, "regrid", "propstream"
    response,               \* the response of _process_valuation
    bf_pc,                  \* fetch_price_history_parallel: "idle",
                            \*   "running" or "returned"
    bf_zpids,               \*   the ids submitted
    bf_lookup,              \*   per submitted task, what its lookup meets
    bf_pending,             \*   tasks whose future is not yet collected
    bf_results,             \*   the dict being filled
    requests,               \* valuate_property: per call, its progress
    request_lock,           \*   REQUEST_LOCK: the call holding it, or 0
    redis_cache,            \*   the keys stored in Redis
    computed,               \*   history: the requests (apn strings) whose
                            \*   valuation was computed and returned
    local_calls,            \* RateLimiter.local_calls: key -> times kept
    now,                    \*   time.time(), in seconds
    granted,                \*   history: key -> times of the calls granted
    rl_result,              \*   history: key and result of the latest call
    persistent_browser,     \* BrowserPool: the browser held, or None
    session_valid,
    session_created_at,     \*   time of mark_session_valid, or None
    pool_now,               \*   time.time(), in seconds
    browsers_created,       \*   history: number of browsers created
    closed_browsers,        \*   history: the browsers closed
    yielded_browser,        \*   the browser inside a get_browser block
    block_exit,             \*   history: how the latest block ended
    fn,                     \* pure-function harness: function applied
    arg_properties,         \*   its list argument
    ret                     \*   its result

vars == <<pc, target_acreage, search_radius, final_radius, all_homes,
          potential_homes, fetch_failed, last_radius, seen,
          fetches, outcome, price_results, filtered_homes, valid_properties,
          outlier_properties, total_comparables_found, path, response,
          bf_pc, bf_zpids,
          bf_lookup, bf_pending, bf_results, requests, request_lock,
          redis_cache, computed, local_calls, now, granted, rl_result,
          persistent_browser, session_valid, session_created_at, pool_now,
          browsers_created, closed_browsers, yielded_browser, block_exit,
          fn, arg_properties, ret>>

searchVars == <<pc, search_radius, final_radius, all_homes,
                potential_homes, fetch_failed, last_radius, seen, fetches, outcome, price_results,
                filtered_homes, valid_properties, outlier_properties,
                total_comparables_found, path, response>>

responseVars == <<path, response>>

harnessVars == <<fn, arg_properties, ret>>

backfillVars == <<bf_pc, bf_zpids, bf_lookup, bf_pending, bf_results>>

\* no fetch_price_history_parallel is in progress
NoBackfill ==
    /\ bf_pc = "idle"
    /\ bf_zpids = <<>>
    /\ bf_lookup = <<>>
    /\ bf_pending = {}
    /\ bf_results = <<>>

requestVars == <<requests, request_lock, redis_cache, computed>>

limiterVars == <<local_calls, now, granted, rl_result>>

poolVars == <<persistent_browser, session_valid, session_created_at, pool_now,
              browsers_created, closed_browsers, yielded_browser, block_exit>>

\* the state of the variables of the services around the search
serviceVars == <<requestVars, limiterVars, poolVars>>

Requests == 1..NumRequests

\* a call of valuate_property that has not been made yet
IdleRequest ==
    [pc |-> "idle", apn |-> <<>>, path |-> "none", coordinates |-> "none",
     searched |-> FALSE, status |-> 0, from_cache |-> FALSE]

\* no call of valuate_property has been made, Redis is empty
NoRequests ==
    /\ requests = [r \in Requests |-> IdleRequest]
    /\ request_lock = 0
    /\ redis_cache = {}
    /\ computed = {}

\* RateLimiter.__init__: no key has been used
NoLimiter ==
    /\ local_calls = <<>>
    /\ now = 0
    /\ granted = <<>>
    /\ rl_result = [key |-> "none", ok |-> FALSE]

\* the clock of the pool starts at a positive time
PoolTickSeconds == 1800

\* BrowserPool.__init__
NoPool ==
    /\ persistent_browser = None
    /\ session_valid = FALSE
    /\ session_created_at = None
    /\ pool_now = PoolTickSeconds
    /\ browsers_created = 0
    /\ closed_browsers = {}
    /\ yielded_browser = None
    /\ block_exit = "none"

NoService == NoRequests /\ NoLimiter /\ NoPool

\* ------------------------------------------------------------------------
\* The environment of the search: what the sales API can answer
\* ------------------------------------------------------------------------
\* target acreages (tenths of an acre)
TargetAcreages == {10, 20}

\* Addresses are numbered 1..NumAddresses.  Every address has a priced sale
\* inside the acreage band of the targets; address 1 also has a later
\* listing with another price and lot, address 3 a listing without a price,
\* address 4 sells at a far higher price per acre.
Addresses == 1..NumAddresses

PriceOf(a) == IF a = 4 THEN 9000 ELSE 1000 + 200 * (a % 3)

RawUniverse ==
    {Raw(a, PriceOf(a), IF a = 2 THEN SQFT_PER_ACRE ELSE 10,
         IF a = 2 THEN "sqft" ELSE "acres", a) : a \in Addresses}
    \cup { Raw(1, 2000, 100, "acres", 1),
           Raw(3, None, 20, "acres", 3) }

FailedResponse == [ok |-> FALSE, totalPages |-> 0, props |-> <<>>]

OkResponses(pageCounts) ==
    {[ok |-> TRUE, totalPages |-> tp, props |-> props] :
        tp \in pageCounts, props \in SeqsUpTo(RawUniverse, 1)}

\* the answers one call of fetch_zillow_data consumes: one per page requested
ResponseScripts ==
    {<<FailedResponse>>}
    \cup {<<r>> : r \in OkResponses({1})}
    \cup {<<r1, r2>> : r1 \in OkResponses({3}),
                       r2 \in {FailedResponse} \cup OkResponses({3})}

\* prices fetch_price_history can return: None or a positive price
BackfillPrices == {None, 3000}

\* page at which the latest fetch failed, 0 if it did not
FailedPage(script) ==
    IF \E i \in 1..Len(script) : ~script[i].ok
    THEN CHOOSE i \in 1..Len(script) : ~script[i].ok
    ELSE 0

\* history of the priced records fetched so far
SeenPut(history, prop) ==
    IF \E i \in 1..Len(history) : history[i].address = prop.address
    THEN [i \in 1..Len(history) |->
            IF history[i].address = prop.address
            THEN [history[i] EXCEPT !.last = prop] ELSE history[i]]
    ELSE Append(history,
                [address |-> prop.address, first |-> prop, last |-> prop])

RECURSIVE SeenAll(_, _)
SeenAll(homes, history) ==
    IF homes = <<>> THEN history
    ELSE SeenAll(Tail(homes), SeenPut(history, Head(homes)))

\* ------------------------------------------------------------------------
\* find_comparable_properties
\* ------------------------------------------------------------------------
SearchInit ==
    /\ pc = "Searching"
    /\ target_acreage \in TargetAcreages
    /\ search_radius = INITIAL_SEARCH_RADIUS_MILES
    /\ final_radius = INITIAL_SEARCH_RADIUS_MILES
    /\ all_homes = <<>>
    /\ potential_homes = <<>>
    /\ fetch_failed = 0
    /\ last_radius = 0
    /\ seen = <<>>
    /\ fetches = 0
    /\ outcome = "none"
    /\ price_results = <<>>
    /\ filtered_homes = <<>>
    /\ valid_properties = <<>>
    /\ outlier_properties = <<>>
    /\ total_comparables_found = 0
    /\ path = "none"
    /\ response = NoResponse
    /\ NoBackfill
    /\ NoService
    /\ fn = "none"
    /\ arg_properties = <<>>
    /\ ret = <<>>

\* one iteration of "while search_radius <= MAX_SEARCH_RADIUS_MILES"
Iterate ==
    /\ pc = "Searching"
    /\ search_radius <= MAX_SEARCH_RADIUS_MILES
    /\ \E script \in ResponseScripts :
         LET fetched == fetch_zillow_data(script)
             failed == FailedPage(script)
             all == AfterFetch(all_homes, fetched[1], failed)
             potential == AfterFetch(potential_homes, fetched[2], failed)
             checked == filter_properties_by_acreage(
                            CheckedHomes(all, fetched[1]), target_acreage)
         IN  /\ fetch_failed' = failed
             /\ last_radius' = search_radius
             /\ seen' = SeenAll(fetched[1], seen)
             /\ all_homes' = all
             /\ potential_homes' = potential
             /\ fetches' = fetches + 1
             /\ IF Len(checked) >= MIN_COMPARABLE_PROPERTIES
                THEN /\ final_radius' = search_radius
                     /\ search_radius' = search_radius
                     /\ pc' = "Found"
                ELSE /\ final_radius' = final_radius
                     /\ search_radius' = NextRadius(search_radius)
                     /\ pc' = "Searching"
    /\ UNCHANGED <<target_acreage, outcome, price_results, filtered_homes,
                   valid_properties, outlier_properties,
                   total_comparables_found>>
    /\ UNCHANGED harnessVars
    /\ UNCHANGED backfillVars
    /\ UNCHANGED serviceVars
    /\ UNCHANGED responseVars

\* the while condition is false: the radius passed the maximum
LoopExit ==
    /\ pc = "Searching"
    /\ ~(search_radius <= MAX_SEARCH_RADIUS_MILES)
    /\ pc' = "Exhausted"
    /\ UNCHANGED <<target_acreage, search_radius, final_radius, all_homes,
                   potential_homes, fetch_failed, last_radius, seen,
                   fetches, outcome, price_results,
                   filtered_homes, valid_properties, outlier_properties,
                   total_comparables_found>>
    /\ UNCHANGED harnessVars
    /\ UNCHANGED backfillVars
    /\ UNCHANGED serviceVars
    /\ UNCHANGED responseVars

\* lines 2091-2130: final radius, filters, price backfill, outlier detection
PostLoop ==
    /\ pc \in {"Found", "Exhausted"}
    /\ LET filtered == filter_properties_by_acreage(all_homes, target_acreage)
           potential_filtered ==
               filter_properties_by_acreage(potential_homes, target_acreage)
           zpids == ZpidsToFetch(potential_filtered)
       IN  /\ final_radius' = FinalRadius(search_radius)
           /\ total_comparables_found' = Len(filtered) + Len(potential_filtered)
           /\ IF BackfillNeeded(filtered) /\ zpids # {}
              THEN \E results \in [zpids -> BackfillPrices] :
                     /\ price_results' = results
                     /\ filtered_homes' =
                            ApplyResults(potential_filtered, results, filtered)
              ELSE /\ price_results' = <<>>
                   /\ filtered_homes' = filtered
           /\ valid_properties' = FinalPartition(filtered_homes')[1]
           /\ outlier_properties' = FinalPartition(filtered_homes')[2]
    /\ outcome' = pc
    /\ pc' = "Returned"
    /\ UNCHANGED <<target_acreage, search_radius, all_homes, potential_homes,
                   fetch_failed, last_radius, seen, fetches>>
    /\ UNCHANGED harnessVars
    /\ UNCHANGED backfillVars
    /\ UNCHANGED serviceVars
    /\ UNCHANGED responseVars

\* The response of _process_valuation for the search that has returned.
\* The search does not read how the parcel was resolved, so the path is
\* recorded when the response is built.
RespondRegrid ==
    /\ pc = "Returned"
    /\ path = "none"
    /\ path' = "regrid"
    /\ response' = RegridResponse(target_acreage, valid_properties,
                                  outlier_properties)
    /\ UNCHANGED <<pc, target_acreage, search_radius, final_radius, all_homes,
                   potential_homes, fetch_failed, last_radius, seen, fetches,
                   outcome, price_results, filtered_homes, valid_properties,
                   outlier_properties, total_comparables_found>>
    /\ UNCHANGED harnessVars
    /\ UNCHANGED backfillVars
    /\ UNCHANGED serviceVars

RespondPropStream ==
    /\ pc = "Returned"
    /\ path = "none"
    /\ path' = "propstream"
    /\ response' = PropStreamResponse(target_acreage, valid_properties,
                                      outlier_properties)
    /\ UNCHANGED <<pc, target_acreage, search_radius, final_radius, all_homes,
                   potential_homes, fetch_failed, last_radius, seen, fetches,
                   outcome, price_results, filtered_homes, valid_properties,
                   outlier_properties, total_comparables_found>>
    /\ UNCHANGED harnessVars
    /\ UNCHANGED backfillVars
    /\ UNCHANGED serviceVars

Init == SearchInit

Next == Iterate \/ LoopExit \/ PostLoop \/ RespondRegrid \/ RespondPropStream

Spec == Init /\ [][Next]_vars

TypeOK ==
    /\ pc \in {"Searching", "Found", "Exhausted", "Returned"}
    /\ search_radius \in INITIAL_SEARCH_RADIUS_MILES..(MAX_SEARCH_RADIUS_MILES + 1)

\* ------------------------------------------------------------------------
\* Harness for the pure functions: the argument is drawn by the initial
\* state, one step applies the function; no search is in progress.
\* ------------------------------------------------------------------------
NoSearch ==
    /\ pc = "Idle"
    /\ search_radius = INITIAL_SEARCH_RADIUS_MILES
    /\ final_radius = INITIAL_SEARCH_RADIUS_MILES
    /\ all_homes = <<>>
    /\ potential_homes = <<>>
    /\ fetch_failed = 0
    /\ last_radius = 0
    /\ seen = <<>>
    /\ fetches = 0
    /\ outcome = "none"
    /\ price_results = <<>>
    /\ filtered_homes = <<>>
    /\ valid_properties = <<>>
    /\ outlier_properties = <<>>
    /\ total_comparables_found = 0
    /\ path = "none"
    /\ response = NoResponse

Sale(address, price, acreage) ==
    [address |-> address, price |-> price, acreage |-> acreage,
     price_per_acre |-> IF price # None /\ acreage # None /\ acreage > 0
                        THEN PricePerAcre(price, acreage) ELSE None,
     zpid |-> address]

\* filter_properties_by_acreage: sales around both edges of the bands of the
\* two targets (1.0 acre: 0.2 .. 5.0, 1.5 acres: 0.3 .. 7.5), and one
\* without acreage
FilterTargets == {10, 15}

FilterSales ==
    {Sale(a, None, ac) : a \in 1..2, ac \in {None, 1, 2, 50, 51, 75}}

FilterInit ==
    /\ NoSearch
    /\ NoBackfill
    /\ NoService
    /\ target_acreage \in FilterTargets
    /\ arg_properties \in SeqsUpTo(FilterSales, MaxFilterLen)
    /\ fn = "none"
    /\ ret = <<>>

ApplyFilter ==
    /\ fn = "none"
    /\ fn' = "filter_properties_by_acreage"
    /\ ret' = filter_properties_by_acreage(arg_properties, target_acreage)
    /\ UNCHANGED <<target_acreage, arg_properties>>
    /\ UNCHANGED searchVars
    /\ UNCHANGED backfillVars
    /\ UNCHANGED serviceVars

FilterNext == ApplyFilter

SpecFilter == FilterInit /\ [][FilterNext]_vars

\* detect_outliers_iqr and the partition at the end of
\* find_comparable_properties: sales of one acre each, one of them without a
\* price, two with the same price per acre, one far below and one far above,
\* and one that lies on the upper bound of 1000, 1000, 1200
OutlierSales ==
    { Sale(1, None, 10), Sale(2, 1000, 10), Sale(3, 1000, 10),
      Sale(4, 1200, 10), Sale(5, 9000, 10), Sale(6, 100, 10),
      Sale(7, 2000, 10) }

OutlierInit ==
    /\ NoSearch
    /\ NoBackfill
    /\ NoService
    /\ target_acreage = 10
    /\ arg_properties \in SeqsUpTo(OutlierSales, MaxOutlierLen)
    /\ fn = "none"
    /\ ret = <<>>

ApplyDetectOutliers ==
    /\ fn = "none"
    /\ fn' = "detect_outliers_iqr"
    /\ ret' = detect_outliers_iqr(arg_properties)
    /\ UNCHANGED <<target_acreage, arg_properties>>
    /\ UNCHANGED searchVars
    /\ UNCHANGED backfillVars
    /\ UNCHANGED serviceVars

\* lines 2122-2126 applied to filtered_homes = arg_properties
ApplyFinalPartition ==
    /\ fn = "none"
    /\ fn' = "final_partition"
    /\ ret' = FinalPartition(arg_properties)
    /\ UNCHANGED <<target_acreage, arg_properties>>
    /\ UNCHANGED searchVars
    /\ UNCHANGED backfillVars
    /\ UNCHANGED serviceVars

OutlierNext == ApplyDetectOutliers \/ ApplyFinalPartition

SpecOutliers == OutlierInit /\ [][OutlierNext]_vars

\* calculate_property_value: targets of 1, 2 and 2.5 acres; sales of one acre
\* each, one of them without a price
ValueTargets == {10, 20, 25}

ValueSales ==
    { Sale(1, None, 10), Sale(2, 1000, 10), Sale(4, 1200, 10),
      Sale(5, 9000, 10), Sale(7, 2000, 10) }

ValueInit ==
    /\ NoSearch
    /\ NoBackfill
    /\ NoService
    /\ target_acreage \in ValueTargets
    /\ arg_properties \in SeqsUpTo(ValueSales, MaxValueLen)
    /\ fn = "none"
    /\ ret = <<>>

ApplyCalculateValue ==
    /\ fn = "none"
    /\ fn' = "calculate_property_value"
    /\ ret' = calculate_property_value(target_acreage, arg_properties)
    /\ UNCHANGED <<target_acreage, arg_properties>>
    /\ UNCHANGED searchVars
    /\ UNCHANGED backfillVars
    /\ UNCHANGED serviceVars

ValueNext == ApplyCalculateValue

SpecValue == ValueInit /\ [][ValueNext]_vars

\* ------------------------------------------------------------------------
\* The normaliser of fetch_zillow_data on one page of raw records: lot area
\* absent, zero, negative or positive, in acres or in square feet (whole
\* tenths of an acre, so that the scaled division is exact), price absent,
\* zero, positive or negative, zpid absent or present
\* ------------------------------------------------------------------------
NormalizeLots ==
    { <<None, "acres">>, <<0, "acres">>, <<0 - 10, "acres">>, <<10, "acres">>,
      <<SQFT_PER_ACRE \div 2, "sqft">>, <<0 - SQFT_PER_ACRE, "sqft">>,
      <<SQFT_PER_ACRE, "SQFT">>, <<10, "hectares">> }

NormalizeRaws ==
    {Raw(1, price, lot[1], lot[2], zpid) :
        price \in {None, 0, 1000, 0 - 1000}, lot \in NormalizeLots,
        zpid \in {None, 7}}

NormalizeInit ==
    /\ NoSearch
    /\ NoBackfill
    /\ NoService
    /\ target_acreage = 10
    /\ fn = "none"
    /\ arg_properties \in SeqsUpTo(NormalizeRaws, MaxNormalizeLen)
    /\ ret = <<>>

\* fetch_zillow_data when the API answers with that one page
ApplyNormalize ==
    /\ fn = "none"
    /\ fn' = "fetch_zillow_data"
    /\ ret' = fetch_zillow_data(
                 <<[ok |-> TRUE, totalPages |-> 1, props |-> arg_properties]>>)
    /\ UNCHANGED <<target_acreage, arg_properties>>
    /\ UNCHANGED searchVars
    /\ UNCHANGED backfillVars
    /\ UNCHANGED serviceVars

\* lines 2092-2120 on the two lists just fetched: both are filtered by
\* acreage and the price-less sales inside the band are given the prices
\* looked up for them; ret becomes <<all_homes, potential_homes,
\* filtered_homes>>, potential_homes being the list as it was fetched
ApplyBackfill ==
    /\ fn = "fetch_zillow_data"
    /\ fn' = "backfill"
    /\ LET filtered == filter_properties_by_acreage(ret[1], target_acreage)
           potential_filtered ==
               filter_properties_by_acreage(ret[2], target_acreage)
           zpids == ZpidsToFetch(potential_filtered)
       IN  IF BackfillNeeded(filtered) /\ zpids # {}
           THEN \E results \in [zpids -> BackfillPrices] :
                  ret' = <<ret[1], ret[2],
                           ApplyResults(potential_filtered, results, filtered)>>
           ELSE ret' = <<ret[1], ret[2], filtered>>
    /\ UNCHANGED <<target_acreage, arg_properties>>
    /\ UNCHANGED searchVars
    /\ UNCHANGED backfillVars
    /\ UNCHANGED serviceVars

NormalizeNext == ApplyNormalize \/ ApplyBackfill

SpecNormalize == NormalizeInit /\ [][NormalizeNext]_vars

\* ------------------------------------------------------------------------
\* fetch_price_history_parallel: every id is submitted to the pool at once,
\* the futures are collected in the order in which they complete.  The ids
\* are distinct: they are the zpids of an address-deduplicated list.
\* ------------------------------------------------------------------------
ZpidLists ==
    {s \in SeqsUpTo(1..MaxBackfill, MaxBackfill) :
        \A i, j \in 1..Len(s) : s[i] = s[j] => i = j}

\* the price-less sales inside the band whose ids are submitted, in list
\* order, and the priced sales inside the band, fewer than
\* MIN_COMPARABLE_PROPERTIES
PotentialFiltered(zpids) ==
    [i \in 1..Len(zpids) |->
        PropertyDict(Raw(zpids[i], None, 10, "acres", zpids[i]))]

PricedFiltered ==
    {[i \in 1..k |-> PropertyDict(Raw(10 + i, 1000, 10, "acres", 10 + i))] :
        k \in 0..(MIN_COMPARABLE_PROPERTIES - 1)}

BackfillInit ==
    /\ NoSearch
    /\ target_acreage = 10
    /\ fn = "none"
    /\ arg_properties \in PricedFiltered
    /\ ret = <<>>
    /\ bf_pc = "running"
    /\ bf_zpids \in ZpidLists
    /\ bf_lookup \in [1..Len(bf_zpids) -> LookupOutcomes]
    /\ bf_pending = 1..Len(bf_zpids)
    /\ bf_results = <<>>
    /\ NoService

\* one pass of "for future in as_completed(future_to_zpid)"
CollectFuture(i) ==
    /\ bf_pc = "running"
    /\ i \in bf_pending
    /\ bf_results' = Collect(bf_results, bf_zpids[i],
                             FutureResult(bf_lookup[i]))
    /\ bf_pending' = bf_pending \ {i}
    /\ UNCHANGED <<bf_pc, bf_zpids, bf_lookup>>
    /\ UNCHANGED <<target_acreage>>
    /\ UNCHANGED searchVars
    /\ UNCHANGED harnessVars
    /\ UNCHANGED serviceVars

\* "return results"
ReturnResults ==
    /\ bf_pc = "running"
    /\ bf_pending = {}
    /\ bf_pc' = "returned"
    /\ UNCHANGED <<bf_zpids, bf_lookup, bf_pending, bf_results>>
    /\ UNCHANGED <<target_acreage>>
    /\ UNCHANGED searchVars
    /\ UNCHANGED harnessVars
    /\ UNCHANGED serviceVars

\* lines 2107-2119: the prices returned are applied to the potential sales
\* in list order; ret is filtered_homes after the backfill
ApplyPrices ==
    /\ bf_pc = "returned"
    /\ bf_pc' = "applied"
    /\ fn' = "backfill"
    /\ ret' = ApplyResults(PotentialFiltered(bf_zpids), bf_results,
                           arg_properties)
    /\ UNCHANGED <<bf_zpids, bf_lookup, bf_pending, bf_results>>
    /\ UNCHANGED <<target_acreage, arg_properties>>
    /\ UNCHANGED searchVars
    /\ UNCHANGED serviceVars

BackfillNext ==
    \/ \E i \in 1..MaxBackfill : CollectFuture(i)
    \/ ReturnResults
    \/ ApplyPrices

SpecBackfill == BackfillInit /\ [][BackfillNext]_vars

\* ------------------------------------------------------------------------
\* valuate_property and _process_valuation: concurrent calls, REQUEST_LOCK,
\* the Redis cache and the resolution of the target parcel.  Strings are
\* sequences of characters.  The search itself is the environment here: it
\* finds comparables or it does not.
\* ------------------------------------------------------------------------
AlnumChars == {"1", "2", "3"}

\* re.sub(r"[^a-zA-Z0-9]", "", apn)
clean_apn(apn) == SelectSeq(apn, LAMBDA c : c \in AlnumChars)

RECURSIVE LStrip(_)
LStrip(s) ==
    IF s # <<>> /\ Head(s) = " " THEN LStrip(Tail(s)) ELSE s

RECURSIVE RStrip(_)
RStrip(s) ==
    IF s # <<>> /\ s[Len(s)] = " " THEN RStrip(SubSeq(s, 1, Len(s) - 1))
    ELSE s

\* str.strip()
Strip(s) == RStrip(LStrip(s))

\* validate_property_request for a county and a state that are accepted
validate_property_request(apn) == apn # <<>> /\ Len(Strip(apn)) >= 3

\* the county and the state of every request of the model
County == <<"c">>
State == <<"s">>

\* hashlib.md5(...).hexdigest(): equal strings give equal digests, and the
\* digests of the different strings of the model differ
Md5(s) == [md5 |-> s]

\* f"{apn}_{county}_{state}"
CacheKeyString(apn) == apn \o <<"_">> \o County \o <<"_">> \o State

\* generate_cache_key(property_request): the key looked up, and the key the
\* PropStream path stores under
generate_cache_key(apn) == Md5(CacheKeyString(apn))

\* the key the Regrid path stores under (line 2257)
RegridCacheKey(apn) == Md5(CacheKeyString(clean_apn(apn)))

\* the apn strings of the requests: plain, with a separator, too short
Apns == { <<"1", "2", "3">>, <<"1", "-", "2", "3">>, <<" ", "1", "2">> }

\* latitude and longitude of the Regrid parcel: its fields or None
RegridCoordinates(has_lat_lon) == IF has_lat_lon THEN "parcel" ELSE "missing"

\* extract_coordinates, then geocode_location, then the "safe default"
PropStreamCoordinates(on_page, geocoded) ==
    IF on_page THEN "page"
    ELSE IF geocoded THEN "geocoded"
    ELSE "default"

\* variant: the lock stays with a call that ended with an exception
LockKeptOnRaise(holder, raised) == IF raised THEN holder ELSE 0

\* the exit of "async with REQUEST_LOCK", by return or by exception
LockAfterExit(holder, raised) == 0

RequestInit ==
    /\ NoSearch
    /\ NoBackfill
    /\ NoRequests
    /\ NoLimiter
    /\ NoPool
    /\ target_acreage = 10
    /\ fn = "none"
    /\ arg_properties = <<>>
    /\ ret = <<>>

requestFrame ==
    /\ UNCHANGED <<target_acreage>>
    /\ UNCHANGED searchVars
    /\ UNCHANGED backfillVars
    /\ UNCHANGED harnessVars
    /\ UNCHANGED limiterVars
    /\ UNCHANGED poolVars

\* a client calls valuate_property; the call waits for REQUEST_LOCK
Submit(r, apn) ==
    /\ requests[r].pc = "idle"
    /\ requests' = [requests EXCEPT ![r].pc = "waiting", ![r].apn = apn]
    /\ UNCHANGED <<request_lock, redis_cache, computed>>
    /\ requestFrame

\* "async with REQUEST_LOCK" is entered
AcquireLock(r) ==
    /\ requests[r].pc = "waiting"
    /\ request_lock = 0
    /\ request_lock' = r
    /\ requests' = [requests EXCEPT ![r].pc = "started"]
    /\ UNCHANGED <<redis_cache, computed>>
    /\ requestFrame

\* the call ends with HTTPException(status) or another exception (500)
Raise(r, status) ==
    /\ requests' = [requests EXCEPT ![r].pc = "done", ![r].status = status]
    /\ request_lock' = LockAfterExit(request_lock, TRUE)
    /\ UNCHANGED <<redis_cache, computed>>

\* lines 2156-2194: validation, cache lookup, rate limiter
CheckCache(r) ==
    /\ requests[r].pc = "started"
    /\ IF ~validate_property_request(requests[r].apn)
       THEN Raise(r, 400)
       ELSE IF generate_cache_key(requests[r].apn) \in redis_cache
       THEN /\ requests' = [requests EXCEPT ![r].pc = "done",
                                            ![r].status = 200,
                                            ![r].from_cache = TRUE]
            /\ request_lock' = LockAfterExit(request_lock, FALSE)
            /\ UNCHANGED <<redis_cache, computed>>
       ELSE \E acquired \in BOOLEAN :
               IF ~acquired
               THEN Raise(r, 429)
               ELSE /\ requests' = [requests EXCEPT ![r].pc = "resolving"]
                    /\ UNCHANGED <<request_lock, redis_cache, computed>>
    /\ requestFrame

\* lines 2196-2216: the parcel is resolved by the Regrid API
ResolveRegrid(r) ==
    /\ requests[r].pc = "resolving"
    /\ \E has_lat_lon \in BOOLEAN :
          requests' = [requests EXCEPT
                          ![r].pc = "searching",
                          ![r].path = "regrid",
                          ![r].coordinates = RegridCoordinates(has_lat_lon)]
    /\ UNCHANGED <<request_lock, redis_cache, computed>>
    /\ requestFrame

\* lines 2270-2330: Regrid gave nothing, the parcel is resolved by PropStream,
\* or the login, the search or the extraction fails
ResolvePropStream(r) ==
    /\ requests[r].pc = "resolving"
    /\ \E extracted \in BOOLEAN :
          IF ~extracted
          THEN Raise(r, 500)
          ELSE /\ \E on_page \in BOOLEAN, geocoded \in BOOLEAN :
                     requests' = [requests EXCEPT
                         ![r].pc = "searching",
                         ![r].path = "propstream",
                         ![r].coordinates =
                             PropStreamCoordinates(on_page, geocoded)]
               /\ UNCHANGED <<request_lock, redis_cache, computed>>
    /\ requestFrame

\* the valuation is returned after it was stored in Redis under key
ReturnComputed(r, key) ==
    /\ requests' = [requests EXCEPT ![r].pc = "done", ![r].status = 200,
                                    ![r].searched = TRUE]
    /\ request_lock' = LockAfterExit(request_lock, FALSE)
    /\ redis_cache' = redis_cache \cup {key}
    /\ computed' = computed \cup {requests[r].apn}

\* lines 2221-2268: search and response for a parcel resolved by Regrid.
\* Without coordinates calculate_bounding_box raises on None before any
\* sale is fetched.
SearchRegrid(r) ==
    /\ requests[r].pc = "searching"
    /\ requests[r].path = "regrid"
    /\ IF requests[r].coordinates = "missing"
       THEN Raise(r, 500)
       ELSE \E found \in BOOLEAN :
               IF ~found
               THEN /\ requests' = [requests EXCEPT ![r].pc = "done",
                                                    ![r].status = 404,
                                                    ![r].searched = TRUE]
                    /\ request_lock' = LockAfterExit(request_lock, TRUE)
                    /\ UNCHANGED <<redis_cache, computed>>
               ELSE ReturnComputed(r, RegridCacheKey(requests[r].apn))
    /\ requestFrame

\* lines 2332-2376: search and response for a parcel resolved by PropStream
SearchPropStream(r) ==
    /\ requests[r].pc = "searching"
    /\ requests[r].path = "propstream"
    /\ ReturnComputed(r, generate_cache_key(requests[r].apn))
    /\ requestFrame

RequestNext ==
    \E r \in Requests :
        \/ \E apn \in Apns : Submit(r, apn)
        \/ AcquireLock(r)
        \/ CheckCache(r)
        \/ ResolveRegrid(r)
        \/ ResolvePropStream(r)
        \/ SearchRegrid(r)
        \/ SearchPropStream(r)

SpecRequest == RequestInit /\ [][RequestNext]_vars

\* ------------------------------------------------------------------------
\* RateLimiter.acquire without a Redis client (src/rate_limiter.py): calls
\* on the keys of RateKeys at the times of a clock that never goes back
\* ------------------------------------------------------------------------
RateKeys == {"a", "b"}

TickSeconds == 30

\* the window of the limiter, in seconds
RATE_WINDOW_SECONDS == 60

\* self.local_calls[key] after "if key not in self.local_calls: ... = []"
CallsOf(calls, key) == IF key \in DOMAIN calls THEN calls[key] ELSE <<>>

\* [call_time for call_time in calls if now - call_time < 60]
RecentCalls(calls, t) ==
    SelectSeq(calls, LAMBDA call_time : t - call_time < RATE_WINDOW_SECONDS)

\* variant: one call more than the limit is let through
AtLimitOffByOne(calls) == Len(calls) > calls_per_minute

\* len(self.local_calls[key]) >= self.calls_per_minute
AtLimit(calls) == Len(calls) >= calls_per_minute

\* d[key] = value
DictSet(d, key, value) ==
    [k \in DOMAIN d \cup {key} |-> IF k = key THEN value ELSE d[k]]

LimiterInit ==
    /\ NoSearch
    /\ NoBackfill
    /\ NoRequests
    /\ NoLimiter
    /\ NoPool
    /\ target_acreage = 10
    /\ fn = "none"
    /\ arg_properties = <<>>
    /\ ret = <<>>

limiterFrame ==
    /\ UNCHANGED <<target_acreage>>
    /\ UNCHANGED searchVars
    /\ UNCHANGED backfillVars
    /\ UNCHANGED harnessVars
    /\ UNCHANGED requestVars
    /\ UNCHANGED poolVars

\* await acquire(key), local branch (lines 46-58)
Acquire(key) ==
    /\ LET recent == RecentCalls(CallsOf(local_calls, key), now)
       IN  IF AtLimit(recent)
           THEN /\ local_calls' = DictSet(local_calls, key, recent)
                /\ granted' = granted
                /\ rl_result' = [key |-> key, ok |-> FALSE]
           ELSE /\ local_calls' = DictSet(local_calls, key,
                                          Append(recent, now))
                /\ granted' = DictSet(granted, key,
                                      Append(CallsOf(granted, key), now))
                /\ rl_result' = [key |-> key, ok |-> TRUE]
    /\ UNCHANGED now
    /\ limiterFrame

\* time passes
Tick ==
    /\ now < MaxTicks * TickSeconds
    /\ now' = now + TickSeconds
    /\ UNCHANGED <<local_calls, granted, rl_result>>
    /\ limiterFrame

LimiterNext == (\E key \in RateKeys : Acquire(key)) \/ Tick

SpecLimiter == LimiterInit /\ [][LimiterNext]_vars

\* ------------------------------------------------------------------------
\* BrowserPool (src/browser_pool.py).  Browsers are numbered in the order of
\* their creation.  One get_browser block is open at a time, as the calls of
\* _process_valuation are serialised by REQUEST_LOCK.
\* ------------------------------------------------------------------------
max_session_age == 3600

\* variant: a session of exactly max_session_age is too old
SessionTooOldAtLimit(created_at, t) ==
    created_at # None /\ created_at # 0 /\ t - created_at >= max_session_age

\* self.session_created_at and time.time() - self.session_created_at > max
SessionTooOld(created_at, t) ==
    created_at # None /\ created_at # 0 /\ t - created_at > max_session_age

\* variant: the exception handler keeps the creation time
CreatedAtKeptOnError(created_at) == created_at

\* "self.session_created_at = None" of the exception handler (line 141)
CreatedAtAfterError(created_at) == None

\* the browsers closed once the old browser, if any, is closed and quit
CloseOld(closed, browser) ==
    IF browser # None THEN closed \cup {browser} ELSE closed

PoolInit ==
    /\ NoSearch
    /\ NoBackfill
    /\ NoRequests
    /\ NoLimiter
    /\ NoPool
    /\ target_acreage = 10
    /\ fn = "none"
    /\ arg_properties = <<>>
    /\ ret = <<>>

poolFrame ==
    /\ UNCHANGED <<target_acreage>>
    /\ UNCHANGED searchVars
    /\ UNCHANGED backfillVars
    /\ UNCHANGED harnessVars
    /\ UNCHANGED requestVars
    /\ UNCHANGED limiterVars

\* await initialize(), the browser being created
Initialize ==
    /\ browsers_created < MaxBrowsers
    /\ browsers_created' = browsers_created + 1
    /\ persistent_browser' = browsers_created + 1
    /\ session_valid' = FALSE
    /\ session_created_at' = None
    /\ UNCHANGED <<pool_now, closed_browsers, yielded_browser, block_exit>>
    /\ poolFrame

\* "async with get_browser() as page" up to the yield (lines 111-136);
\* _create_browser returns a browser or raises
GetBrowser ==
    /\ yielded_browser = None
    /\ LET too_old == SessionTooOld(session_created_at, pool_now)
           valid == IF too_old THEN FALSE ELSE session_valid
           created_at == IF too_old THEN None ELSE session_created_at
       IN  IF persistent_browser = None \/ ~valid
           THEN /\ browsers_created < MaxBrowsers
                /\ closed_browsers' = CloseOld(closed_browsers,
                                               persistent_browser)
                /\ \E created \in BOOLEAN :
                      IF created
                      THEN /\ browsers_created' = browsers_created + 1
                           /\ persistent_browser' = browsers_created + 1
                           /\ session_valid' = FALSE
                           /\ session_created_at' = None
                           /\ yielded_browser' = browsers_created + 1
                           /\ block_exit' = "none"
                      ELSE /\ session_valid' = valid
                           /\ session_created_at' = created_at
                           /\ UNCHANGED <<browsers_created, persistent_browser,
                                          yielded_browser, block_exit>>
           ELSE /\ yielded_browser' = persistent_browser
                /\ block_exit' = "none"
                /\ UNCHANGED <<persistent_browser, session_valid,
                               session_created_at, browsers_created,
                               closed_browsers>>
    /\ UNCHANGED pool_now
    /\ poolFrame

\* the block of get_browser ends without an exception
BlockReturns ==
    /\ yielded_browser # None
    /\ yielded_browser' = None
    /\ block_exit' = "returned"
    /\ UNCHANGED <<persistent_browser, session_valid, session_created_at,
                   pool_now, browsers_created, closed_browsers>>
    /\ poolFrame

\* the block of get_browser raises an exception (lines 137-142)
BlockRaises ==
    /\ yielded_browser # None
    /\ yielded_browser' = None
    /\ block_exit' = "raised"
    /\ session_valid' = FALSE
    /\ session_created_at' = CreatedAtAfterError(session_created_at)
    /\ UNCHANGED <<persistent_browser, pool_now, browsers_created,
                   closed_browsers>>
    /\ poolFrame

mark_session_valid ==
    /\ session_valid' = TRUE
    /\ session_created_at' = pool_now
    /\ UNCHANGED <<persistent_browser, pool_now, browsers_created,
                   closed_browsers, yielded_browser, block_exit>>
    /\ poolFrame

invalidate_session ==
    /\ session_valid' = FALSE
    /\ session_created_at' = None
    /\ UNCHANGED <<persistent_browser, pool_now, browsers_created,
                   closed_browsers, yielded_browser, block_exit>>
    /\ poolFrame

\* time passes
PoolTick ==
    /\ pool_now < (MaxPoolTicks + 1) * PoolTickSeconds
    /\ pool_now' = pool_now + PoolTickSeconds
    /\ UNCHANGED <<persistent_browser, session_valid, session_created_at,
                   browsers_created, closed_browsers, yielded_browser,
                   block_exit>>
    /\ poolFrame

PoolNext ==
    \/ Initialize
    \/ GetBrowser
    \/ BlockReturns
    \/ BlockRaises
    \/ mark_session_valid
    \/ invalidate_session
    \/ PoolTick

SpecPool == PoolInit /\ [][PoolNext]_vars

\* ------------------------------------------------------------------------
\* Properties of the search loop (specification Spec)
\* ------------------------------------------------------------------------
Addrs(homes) == {homes[i].address : i \in 1..Len(homes)}

\* number of accumulated priced sales inside the acreage band
FilteredCount ==
    Cardinality({i \in 1..Len(all_homes) :
        /\ target_acreage * MIN_ACREAGE_RATIO <= all_homes[i].acreage * RatioScale
        /\ all_homes[i].acreage * RatioScale <= target_acreage * MAX_ACREAGE_RATIO})

MaxIterations ==
    ((MAX_SEARCH_RADIUS_MILES - INITIAL_SEARCH_RADIUS_MILES)
        \div SEARCH_RADIUS_INCREMENT) + 1

LoopRunning == pc = "Searching" /\ search_radius <= MAX_SEARCH_RADIUS_MILES

\* C1: as soon as the acreage-filtered count of the accumulated priced sales
\* reaches MIN_COMPARABLE_PROPERTIES the loop has stopped in Found, no
\* further radius is fetched, and the final radius is the radius of the
\* fetch that reached the count.
C1_StopsAtFirstSufficientRadius ==
    FilteredCount >= MIN_COMPARABLE_PROPERTIES =>
        /\ pc \in {"Found", "Returned"}
        /\ pc = "Returned" => outcome = "Found"
        /\ search_radius = last_radius
        /\ final_radius = last_radius

C1_Witness ==
    /\ pc = "Returned"
    /\ outcome = "Found"
    /\ FilteredCount >= MIN_COMPARABLE_PROPERTIES
    /\ final_radius = INITIAL_SEARCH_RADIUS_MILES + 2 * SEARCH_RADIUS_INCREMENT
    /\ fetches = 3

\* C2: the final radius always lies between the initial and the maximum
\* search radius.
C2_FinalRadiusInRange ==
    /\ INITIAL_SEARCH_RADIUS_MILES <= final_radius
    /\ final_radius <= MAX_SEARCH_RADIUS_MILES

C2_Witness ==
    /\ pc = "Returned"
    /\ outcome = "Exhausted"
    /\ search_radius > MAX_SEARCH_RADIUS_MILES
    /\ final_radius = MAX_SEARCH_RADIUS_MILES

\* C3: the loop runs at most floor((max - initial) / increment) + 1 fetch
\* iterations, whatever the fetches return: after that many it is no longer
\* running.
C3_BoundedIterations ==
    /\ fetches <= MaxIterations
    /\ LoopRunning => fetches < MaxIterations
    /\ LoopRunning => search_radius =
           INITIAL_SEARCH_RADIUS_MILES + fetches * SEARCH_RADIUS_INCREMENT

C3_Witness ==
    /\ pc = "Exhausted"
    /\ fetches = MaxIterations
    /\ FilteredCount < MIN_COMPARABLE_PROPERTIES

\* C4: a search that ends Exhausted returns the maximum radius and every
\* accumulated priced sale inside the band, in valid or outliers; with one
\* such sale and nothing to backfill, valid is that sale and the comparable
\* count is 1.
C4_ExhaustedKeepsPartialResults ==
    (pc = "Returned" /\ outcome = "Exhausted") =>
        /\ final_radius = MAX_SEARCH_RADIUS_MILES
        /\ FilteredCount < MIN_COMPARABLE_PROPERTIES
        /\ \A i \in 1..Len(all_homes) :
              (/\ target_acreage * MIN_ACREAGE_RATIO
                     <= all_homes[i].acreage * RatioScale
               /\ all_homes[i].acreage * RatioScale
                     <= target_acreage * MAX_ACREAGE_RATIO)
              => all_homes[i] \in Range(valid_properties)
                                  \cup Range(outlier_properties)
        /\ (FilteredCount = 1 /\ price_results = <<>>) =>
              /\ Len(valid_properties) = 1
              /\ valid_properties[1] \in Range(all_homes)
              /\ outlier_properties = <<>>
              /\ comparable_count(valid_properties) = 1

C4_Witness ==
    /\ pc = "Returned"
    /\ outcome = "Exhausted"
    /\ FilteredCount = 1
    /\ price_results = <<>>
    /\ Len(valid_properties) = 1

\* C5: after every iteration the accumulated priced sales hold each address
\* at most once.
C5_AddressesUnique ==
    \A i, j \in 1..Len(all_homes) :
        all_homes[i].address = all_homes[j].address => i = j

C5_Witness ==
    /\ Len(all_homes) >= 2
    /\ \E i \in 1..Len(seen) : seen[i].first # seen[i].last

\* C6 as stated: the record kept for an address is the first one seen.
C6_FirstSeenWins ==
    /\ Len(all_homes) = Len(seen)
    /\ \A i \in 1..Len(all_homes) : all_homes[i] = seen[i].first

\* C6 amended: the accumulated list holds the addresses in the order in
\* which they were first seen, each with the record seen last.
C6_LastSeenWins ==
    /\ Len(all_homes) = Len(seen)
    /\ \A i \in 1..Len(all_homes) :
          /\ all_homes[i].address = seen[i].address
          /\ all_homes[i] = seen[i].last

C6_Witness ==
    \E i \in 1..Len(seen) :
        /\ seen[i].first # seen[i].last
        /\ all_homes[i] = seen[i].last
        /\ i < Len(seen)

\* the step is a loop iteration whose fetch failed on some page
FailedIteration == fetches' = fetches + 1 /\ fetch_failed' # 0

\* the loop went on to the termination check and the next radius
LoopContinued ==
    \/ pc' = "Found" /\ search_radius' = search_radius
    \/ /\ pc' = "Searching"
       /\ search_radius' = search_radius + SEARCH_RADIUS_INCREMENT

RECURSIVE IsSubsequence(_, _)
IsSubsequence(sub, s) ==
    IF sub = <<>> THEN TRUE
    ELSE IF s = <<>> THEN FALSE
    ELSE IF Head(sub) = Head(s) THEN IsSubsequence(Tail(sub), Tail(s))
    ELSE IsSubsequence(sub, Tail(s))

\* T * MIN_RATIO <= a <= T * MAX_RATIO for a sale that has an acreage
AcreageInsideBand(sale, target) ==
    /\ sale.acreage # None
    /\ target * MIN_ACREAGE_RATIO <= sale.acreage * RatioScale
    /\ sale.acreage * RatioScale <= target * MAX_ACREAGE_RATIO

\* C8: the filter returns exactly the sales inside the closed band, in input
\* order: all it returns are inside, it returns as many as there are inside,
\* and they are a subsequence of the input.
C8_FilterReturnsExactlyTheBand ==
    fn = "filter_properties_by_acreage" =>
        /\ \A i \in 1..Len(ret) : AcreageInsideBand(ret[i], target_acreage)
        /\ Len(ret) = Cardinality({i \in 1..Len(arg_properties) :
               AcreageInsideBand(arg_properties[i], target_acreage)})
        /\ IsSubsequence(ret, arg_properties)

C8_Witness ==
    /\ fn = "filter_properties_by_acreage"
    /\ target_acreage = 10
    /\ Len(arg_properties) = 3
    /\ Len(ret) = 2
    /\ ret[1].acreage = 50
    /\ ret[2].acreage = 2
    /\ arg_properties[2].acreage = 51

\* ------------------------------------------------------------------------
\* Properties of detect_outliers_iqr (specification SpecOutliers)
\* ------------------------------------------------------------------------
UsableIndices(properties) ==
    {i \in 1..Len(properties) : properties[i].price_per_acre # None}

\* C9: with at least 4 usable values, valid and outliers are disjoint and
\* together are exactly the input sales that have a price_per_acre; a sale
\* without one is in neither list.
C9_OutlierPartition ==
    (/\ fn = "detect_outliers_iqr"
     /\ Cardinality(UsableIndices(arg_properties)) >= MIN_IQR_VALUES) =>
        /\ Range(ret[1]) \cap Range(ret[2]) = {}
        /\ Range(ret[1]) \cup Range(ret[2]) =
              {arg_properties[i] : i \in UsableIndices(arg_properties)}
        /\ Len(ret[1]) + Len(ret[2]) =
              Cardinality(UsableIndices(arg_properties))
        /\ IsSubsequence(ret[1], arg_properties)
        /\ IsSubsequence(ret[2], arg_properties)

C9_Witness ==
    /\ fn = "detect_outliers_iqr"
    /\ Cardinality(UsableIndices(arg_properties)) = MIN_IQR_VALUES
    /\ Len(arg_properties) = MIN_IQR_VALUES + 1
    /\ Len(ret[1]) = 3
    /\ Len(ret[2]) = 1

\* C10: with fewer than 4 usable values the result is the input list
\* unchanged and no outlier, from detect_outliers_iqr and from the partition
\* that ends find_comparable_properties.
C10_TooFewValuesSkipDetection ==
    (/\ fn \in {"detect_outliers_iqr", "final_partition"}
     /\ Cardinality(UsableIndices(arg_properties)) < MIN_IQR_VALUES) =>
        /\ ret[1] = arg_properties
        /\ ret[2] = <<>>

C10_Witness ==
    /\ fn = "detect_outliers_iqr"
    /\ Cardinality(UsableIndices(arg_properties)) = MIN_IQR_VALUES - 1
    /\ Len(arg_properties) = MIN_IQR_VALUES
    /\ ret[1] = arg_properties
    /\ ret[2] = <<>>


\* the k-th smallest of the usable price_per_acre values, by rank
UsableValues(properties) ==
    {properties[i].price_per_acre : i \in UsableIndices(properties)}

KthSmallest(properties, k) ==
    CHOOSE x \in UsableValues(properties) :
        /\ Cardinality({i \in UsableIndices(properties) :
               properties[i].price_per_acre < x}) < k
        /\ k <= Cardinality({i \in UsableIndices(properties) :
               properties[i].price_per_acre <= x})

\* 4 * (the q-th quartile), interpolated linearly between the closest ranks
Quartile4(properties, q) ==
    LET n == Cardinality(UsableIndices(properties))
        lo == ((n - 1) * q) \div 4
        fr == ((n - 1) * q) % 4
    IN  IF fr = 0 THEN 4 * KthSmallest(properties, lo + 1)
        ELSE (4 - fr) * KthSmallest(properties, lo + 1)
                 + fr * KthSmallest(properties, lo + 2)

\* 8 * (Q1 - 1.5 * IQR) and 8 * (Q3 + 1.5 * IQR)
IqrLower8(properties) ==
    2 * Quartile4(properties, 1)
        - 3 * (Quartile4(properties, 3) - Quartile4(properties, 1))

IqrUpper8(properties) ==
    2 * Quartile4(properties, 3)
        + 3 * (Quartile4(properties, 3) - Quartile4(properties, 1))

StrictlyOutside(sale, lower8, upper8) ==
    \/ 8 * sale.price_per_acre < lower8
    \/ 8 * sale.price_per_acre > upper8

\* C11: with at least 4 usable values a sale with a price_per_acre is an
\* outlier exactly when the value is strictly below Q1 - 1.5 IQR or strictly
\* above Q3 + 1.5 IQR, and valid otherwise; a value on a bound is valid.
C11_OutlierIffStrictlyOutside ==
    (/\ fn = "detect_outliers_iqr"
     /\ Cardinality(UsableIndices(arg_properties)) >= MIN_IQR_VALUES) =>
        LET lower8 == IqrLower8(arg_properties)
            upper8 == IqrUpper8(arg_properties)
        IN  \A i \in UsableIndices(arg_properties) :
                /\ arg_properties[i] \in Range(ret[2])
                      <=> StrictlyOutside(arg_properties[i], lower8, upper8)
                /\ arg_properties[i] \in Range(ret[1])
                      <=> ~StrictlyOutside(arg_properties[i], lower8, upper8)

\* 1000, 1000, 1200, 2000 and 9000: Q1 = 1000, Q3 = 2000, the bounds are
\* -500 and 3500; without the 9000 the upper bound is 2000 itself
C11_Witness ==
    /\ fn = "detect_outliers_iqr"
    /\ Len(arg_properties) = MIN_IQR_VALUES
    /\ UsableValues(arg_properties) = {1000, 1200, 2000}
    /\ 8 * 2000 = IqrUpper8(arg_properties)
    /\ Len(ret[1]) = MIN_IQR_VALUES
    /\ ret[2] = <<>>


\* ------------------------------------------------------------------------
\* Properties of calculate_property_value (specification SpecValue)
\* ------------------------------------------------------------------------
\* a rational that is a number: not None, with a positive denominator
Defined(r) == r.num # None /\ r.den > 0

RatEq(a, b) == a.num * b.den = b.num * a.den

RatLeq(a, b) == a.num * b.den <= b.num * a.den

AllNull(result) ==
    /\ result.estimated_value_avg.num = None
    /\ result.estimated_value_median.num = None
    /\ result.price_per_acre_stats.min = None
    /\ result.price_per_acre_stats.max = None
    /\ result.price_per_acre_stats.avg.num = None
    /\ result.price_per_acre_stats.median.num = None
    /\ result.price_per_acre_stats.std_dev_sq.num = None

\* C14: an empty list gives count 0 and null estimates and stats; a list
\* without any price_per_acre gives its length and null estimates and stats;
\* any other list gives numbers with non-zero denominators.
C14_NoValuesGiveNullResult ==
    fn = "calculate_property_value" =>
        /\ arg_properties = <<>> =>
              ret.comparable_count = 0 /\ AllNull(ret)
        /\ (arg_properties # <<>> /\ UsableIndices(arg_properties) = {}) =>
              ret.comparable_count = Len(arg_properties) /\ AllNull(ret)
        /\ UsableIndices(arg_properties) # {} =>
              /\ Defined(ret.estimated_value_avg)
              /\ Defined(ret.estimated_value_median)
              /\ Defined(ret.price_per_acre_stats.avg)
              /\ Defined(ret.price_per_acre_stats.median)
              /\ Defined(ret.price_per_acre_stats.std_dev_sq)

C14_Witness ==
    /\ fn = "calculate_property_value"
    /\ Len(arg_properties) = 2
    /\ UsableIndices(arg_properties) = {}
    /\ ret.comparable_count = 2
    /\ AllNull(ret)

\* C15: for exactly one sale, with price_per_acre p, both estimates are
\* p * T, min = max = avg = median = p and std_dev = 0.
C15_SingleSale ==
    (/\ fn = "calculate_property_value"
     /\ Len(arg_properties) = 1
     /\ arg_properties[1].price_per_acre # None) =>
        LET p == arg_properties[1].price_per_acre
            stats == ret.price_per_acre_stats
            pT == Rat(p * target_acreage, AcreScale)
        IN  /\ Defined(ret.estimated_value_avg)
            /\ RatEq(ret.estimated_value_avg, pT)
            /\ Defined(ret.estimated_value_median)
            /\ RatEq(ret.estimated_value_median, pT)
            /\ stats.min = p
            /\ stats.max = p
            /\ Defined(stats.avg) /\ RatEq(stats.avg, Rat(p, 1))
            /\ Defined(stats.median) /\ RatEq(stats.median, Rat(p, 1))
            /\ Defined(stats.std_dev_sq) /\ stats.std_dev_sq.num = 0
            /\ ret.comparable_count = 1

\* price_per_acre 1000 and 2 acres give 2000
C15_Witness ==
    /\ fn = "calculate_property_value"
    /\ Len(arg_properties) = 1
    /\ arg_properties[1].price_per_acre = 1000
    /\ target_acreage = 2 * AcreScale
    /\ RatEq(ret.estimated_value_avg, Rat(2000, 1))
    /\ RatEq(ret.estimated_value_median, Rat(2000, 1))

RECURSIVE UsableSum(_)
UsableSum(properties) ==
    IF properties = <<>> THEN 0
    ELSE (IF Head(properties).price_per_acre = None THEN 0
          ELSE Head(properties).price_per_acre) + UsableSum(Tail(properties))

\* twice the median of the usable values, by rank
TwiceMedian(properties) ==
    LET n == Cardinality(UsableIndices(properties))
    IN  IF n % 2 = 1 THEN 2 * KthSmallest(properties, (n + 1) \div 2)
        ELSE KthSmallest(properties, n \div 2)
                 + KthSmallest(properties, (n \div 2) + 1)

\* C16: over the sales that have a price_per_acre, avg is the mean, median
\* the median, min and max the extremes, and the two estimates are avg and
\* median times the target acreage.
C16_StatisticsOfUsableValues ==
    (fn = "calculate_property_value" /\ UsableIndices(arg_properties) # {}) =>
        LET n == Cardinality(UsableIndices(arg_properties))
            stats == ret.price_per_acre_stats
        IN  /\ Defined(stats.avg)
            /\ RatEq(stats.avg, Rat(UsableSum(arg_properties), n))
            /\ Defined(stats.median)
            /\ RatEq(stats.median, Rat(TwiceMedian(arg_properties), 2))
            /\ stats.min = KthSmallest(arg_properties, 1)
            /\ stats.max = KthSmallest(arg_properties, n)
            /\ RatLeq(Rat(stats.min, 1), stats.median)
            /\ RatLeq(stats.median, Rat(stats.max, 1))
            /\ RatLeq(Rat(stats.min, 1), stats.avg)
            /\ RatLeq(stats.avg, Rat(stats.max, 1))
            /\ RatEq(ret.estimated_value_avg,
                     Rat(stats.avg.num * target_acreage,
                         stats.avg.den * AcreScale))
            /\ RatEq(ret.estimated_value_median,
                     Rat(stats.median.num * target_acreage,
                         stats.median.den * AcreScale))
            /\ Defined(ret.estimated_value_avg)
            /\ Defined(ret.estimated_value_median)

\* 9000, no price, 1000, 1200: mean 11200 / 3, median 1200
C16_Witness ==
    /\ fn = "calculate_property_value"
    /\ Len(arg_properties) = 4
    /\ Cardinality(UsableIndices(arg_properties)) = 3
    /\ arg_properties[1].price_per_acre = 9000
    /\ arg_properties[3].price_per_acre = 1000
    /\ arg_properties[4].price_per_acre = 1200
    /\ RatEq(ret.price_per_acre_stats.median, Rat(1200, 1))
    /\ RatEq(ret.price_per_acre_stats.avg, Rat(11200, 3))


\* ------------------------------------------------------------------------
\* Properties of fetch_price_history_parallel (specification SpecBackfill)
\* ------------------------------------------------------------------------
\* the lookup was answered with a history that holds a positive price
LookupSucceeded(lookup) ==
    /\ lookup.kind = "ok"
    /\ \E j \in 1..Len(lookup.history) :
          lookup.history[j] # None /\ lookup.history[j] > 0

PriceFound(lookup) ==
    LET first == CHOOSE j \in 1..Len(lookup.history) :
                    /\ lookup.history[j] # None /\ lookup.history[j] > 0
                    /\ \A k \in 1..(j - 1) :
                          lookup.history[k] = None \/ lookup.history[k] <= 0
    IN  lookup.history[first]

\* C17: the dict returned has an entry for every id submitted; the entry of
\* a lookup that failed (exception, 429, no price in the history) is None
\* and the entry of every lookup that succeeded is its price, whatever the
\* other lookups did.
C17_FailedLookupDoesNotAbortBatch ==
    bf_pc = "returned" =>
        /\ DOMAIN bf_results = Range(bf_zpids)
        /\ \A i \in 1..Len(bf_zpids) :
              IF LookupSucceeded(bf_lookup[i])
              THEN bf_results[bf_zpids[i]] = PriceFound(bf_lookup[i])
              ELSE bf_results[bf_zpids[i]] = None

C17_Witness ==
    /\ bf_pc = "returned"
    /\ Len(bf_zpids) = 3
    /\ bf_lookup[1].kind = "rate_limited"
    /\ bf_lookup[2].kind = "ok" /\ bf_results[bf_zpids[2]] = 3000
    /\ bf_lookup[3].kind \in {"error", "raised"}
    /\ bf_results[bf_zpids[1]] = None
    /\ bf_results[bf_zpids[3]] = None

\* the sale with the price found for it
Priced(prop, price) ==
    [prop EXCEPT !.price = price,
                 !.price_per_acre = (price * AcreScale) \div prop.acreage]

\* the sequential reference: walk the potential sales in list order, append
\* each one whose lookup found a positive price, stop at
\* MIN_COMPARABLE_PROPERTIES
RECURSIVE SequentialBackfill(_, _, _)
SequentialBackfill(potential, lookups, filtered) ==
    IF potential = <<>> \/ Len(filtered) >= MIN_COMPARABLE_PROPERTIES
    THEN filtered
    ELSE SequentialBackfill(Tail(potential), Tail(lookups),
            IF LookupSucceeded(Head(lookups))
            THEN Append(filtered,
                        Priced(Head(potential), PriceFound(Head(lookups))))
            ELSE filtered)

\* C25: whatever the order in which the lookups complete, the backfill gives
\* the list of the sequential reference, and never more than
\* MIN_COMPARABLE_PROPERTIES sales.
C25_BackfillIsOrderIndependent ==
    bf_pc = "applied" =>
        /\ ret = SequentialBackfill(PotentialFiltered(bf_zpids), bf_lookup,
                                    arg_properties)
        /\ Len(ret) <= MIN_COMPARABLE_PROPERTIES

C25_Witness ==
    /\ bf_pc = "applied"
    /\ Len(arg_properties) = 2
    /\ Len(bf_zpids) = 3
    /\ bf_zpids[1] > bf_zpids[2]
    /\ ~LookupSucceeded(bf_lookup[1])
    /\ LookupSucceeded(bf_lookup[2])
    /\ LookupSucceeded(bf_lookup[3])
    /\ Len(ret) = 3
    /\ ret[3].zpid = bf_zpids[2]
    /\ ret[3].price = 3000

\* ------------------------------------------------------------------------
\* Properties of the price backfill inside the search (specification Spec)
\* ------------------------------------------------------------------------
\* price lookups have been issued: the dict of looked-up prices has keys
LookupsIssued == DOMAIN price_results # {}

\* C18: price lookups are issued only once the loop has finished, with fewer
\* than MIN_COMPARABLE_PROPERTIES priced sales inside the band and at least
\* one price-less candidate inside the band; a search that ended in Found
\* issues none.
C18_BackfillOnlyWhenShort ==
    /\ LookupsIssued =>
          /\ pc = "Returned"
          /\ outcome = "Exhausted"
          /\ FilteredCount < MIN_COMPARABLE_PROPERTIES
          /\ \E i \in 1..Len(potential_homes) :
                /\ potential_homes[i].price = None
                /\ AcreageInsideBand(potential_homes[i], target_acreage)
    /\ (pc = "Found" \/ outcome = "Found") => ~LookupsIssued

C18_Witness ==
    /\ pc = "Returned"
    /\ LookupsIssued
    /\ \E z \in DOMAIN price_results : price_results[z] # None
    /\ Len(filtered_homes) > FilteredCount


\* ------------------------------------------------------------------------
\* Properties of the normaliser (specification SpecNormalize)
\* ------------------------------------------------------------------------
\* the sale records constructed from the page, priced and potential
Constructed == Range(ret[1]) \cup Range(ret[2])

\* every sale record held: the two fetched lists and, after the backfill,
\* the filtered list
Held == UNION {Range(ret[i]) : i \in 1..Len(ret)}

\* ppa is price / acreage, in whole dollars per acre
IsPriceOverAcreage(ppa, price, acreage) ==
    /\ ppa # None
    /\ ppa * acreage <= price * AcreScale
    /\ price * AcreScale < (ppa + 1) * acreage

\* C19: no sale record with acreage <= 0 is constructed: every raw record
\* whose lot area is absent, zero or negative is dropped before it enters the
\* priced or the potential list.
C19_NoNonPositiveAcreage ==
    fn = "fetch_zillow_data" =>
        \A sale \in Constructed : sale.acreage > 0


\* C20: every sale record held, after normalisation and after the price
\* backfill, has price_per_acre = price / acreage when its price is not null
\* and its acreage is positive, and a null price_per_acre otherwise.
C20_PricePerAcreConsistent ==
    fn \in {"fetch_zillow_data", "backfill"} =>
        \A sale \in Held :
            IF sale.price # None /\ sale.acreage > 0
            THEN IsPriceOverAcreage(sale.price_per_acre, sale.price,
                                    sale.acreage)
            ELSE sale.price_per_acre = None

C20_Witness ==
    /\ fn = "backfill"
    /\ \E sale \in Range(ret[3]) :
          sale.price = 3000 /\ sale.price_per_acre = 3000
    /\ \E sale \in Range(ret[1]) :
          sale.price = 1000 /\ sale.acreage < 0 /\ sale.price_per_acre = None


\* ------------------------------------------------------------------------
\* Properties of the valuation response (specification Spec)
\* ------------------------------------------------------------------------
\* a result was returned to the caller
ResultReturned == path # "none" /\ response.status = 200

Kept(raw) ==
    /\ raw.lotAreaValue # None /\ raw.lotAreaValue # 0
    /\ raw.zpid # None /\ raw.zpid # 0

\* acreage (in 1/AcreScale acre) is the lot area of the raw record:
\* lotAreaValue / 43560 for square feet, lotAreaValue itself otherwise
IsAcreageOf(acreage, raw) ==
    IF raw.lotAreaUnit \in {"sqft", "SQFT"}
    THEN acreage * SQFT_PER_ACRE = raw.lotAreaValue * AcreScale
    ELSE acreage = raw.lotAreaValue

\* C21: a lot area given in square feet is normalised to lotAreaValue / 43560
\* acres (21780 sqft is 0.5 acre), a lot area in any other unit is used as
\* acres unchanged: the records constructed and the raw records kept match
\* one to one on that acreage.
C21_SquareFeetToAcres ==
    fn = "fetch_zillow_data" =>
        /\ \A i \in 1..Len(arg_properties) :
              Kept(arg_properties[i]) =>
                 \E sale \in Constructed :
                    IsAcreageOf(sale.acreage, arg_properties[i])
        /\ \A sale \in Constructed :
              \E i \in 1..Len(arg_properties) :
                 /\ Kept(arg_properties[i])
                 /\ IsAcreageOf(sale.acreage, arg_properties[i])

C21_Witness ==
    /\ fn = "fetch_zillow_data"
    /\ Len(arg_properties) = 2
    /\ arg_properties[1].lotAreaValue = 21780
    /\ arg_properties[1].lotAreaUnit = "sqft"
    /\ arg_properties[2].lotAreaUnit = "hectares"
    /\ arg_properties[1].price = 1000 /\ arg_properties[2].price = 1000
    /\ Len(ret[1]) = 2
    /\ ret[1][1].acreage = 5
    /\ ret[1][2].acreage = 10


\* ------------------------------------------------------------------------
\* Properties of the valuation requests (specification SpecRequest)
\* ------------------------------------------------------------------------
\* the coordinates of the parcel were found neither in the parcel data nor
\* by geocoding the county
Unresolved(r) == requests[r].coordinates \in {"missing", "default"}

\* C22: a request whose parcel coordinates cannot be resolved fails; the
\* comparable search is never run for it with defaulted coordinates.
C22_UnresolvedCoordinatesFail ==
    \A r \in Requests :
        Unresolved(r) =>
            /\ ~requests[r].searched
            /\ requests[r].status # 200


\* the calls that are inside "async with REQUEST_LOCK"
Processing ==
    {r \in Requests : requests[r].pc \in {"started", "resolving", "searching"}}

\* C23: at most one call of _process_valuation is in progress, it is the
\* holder of the lock, and the lock is free whenever none is in progress,
\* also after a call that ended with an exception, so that a waiting call
\* can enter.
C23_OneRequestAtATime ==
    /\ Cardinality(Processing) <= 1
    /\ \A r \in Processing : request_lock = r
    /\ Processing = {} => request_lock = 0

C23_Witness ==
    \E r1, r2 \in Requests :
        /\ requests[r1].pc = "done" /\ requests[r1].status = 500
        /\ requests[r2].pc = "searching"
        /\ request_lock = r2

\* C27: a valuation that was computed and returned is found in the cache by
\* a later request with the identical apn, county and state: no call goes
\* past the cache lookup for a request whose valuation was computed before.
C27_RepeatedRequestHitsCache ==
    \A r \in Requests :
        requests[r].pc \in {"resolving", "searching"} =>
            requests[r].apn \notin computed


\* ------------------------------------------------------------------------
\* Properties of the comparables returned by the search (specification Spec)
\* ------------------------------------------------------------------------
\* the comparables find_comparable_properties returns: valid, then outliers
ReturnedComparables == valid_properties \o outlier_properties

\* C24: the addresses of the comparables returned, valid and outliers, are
\* pairwise distinct, also when an address was fetched both as a priced sale
\* and as a price-less sale that the backfill adds.
C24_ReturnedAddressesDistinct ==
    pc = "Returned" =>
        \A i, j \in 1..Len(ReturnedComparables) :
            ReturnedComparables[i].address = ReturnedComparables[j].address
                => i = j


\* C26: for a positive target acreage every sale the search returns,
\* original or backfilled, has a non-null positive price, a non-null
\* price_per_acre and an acreage inside the band.
C26_ReturnedSalesArePriced ==
    (fn = "backfill" /\ target_acreage > 0) =>
        \A sale \in Range(ret[3]) :
            /\ sale.price # None
            /\ sale.price > 0
            /\ sale.price_per_acre # None
            /\ AcreageInsideBand(sale, target_acreage)


\* ------------------------------------------------------------------------
\* Properties of the rate limiter (specification SpecLimiter)
\* ------------------------------------------------------------------------
\* the grants of key whose time t lies in the 60 seconds from start on,
\* start <= t < start + 60
GrantsInWindow(history, key, start) ==
    Cardinality({i \in 1..Len(CallsOf(history, key)) :
        /\ start <= history[key][i]
        /\ history[key][i] < start + RATE_WINDOW_SECONDS})

\* no 60-second window holds more than calls_per_minute grants of one key
WindowsRespected(history) ==
    \A key \in RateKeys :
        \A i \in 1..Len(CallsOf(history, key)) :
            GrantsInWindow(history, key, history[key][i]) <= calls_per_minute

\* the step is a call of acquire: the clock stands still
IsAcquireStep == now' = now

\* C28: in local mode, no 60-second window holds more than calls_per_minute
\* granted calls of one key; a call that is refused records nothing; a call
\* on one key is decided by the grants of that key alone and changes nothing
\* that is kept for another key.
C28_LocalLimitPerKey ==
    [][IsAcquireStep =>
        LET key == rl_result'.key
        IN  /\ WindowsRespected(granted')
            /\ ~rl_result'.ok =>
                  /\ granted' = granted
                  /\ Range(CallsOf(local_calls', key))
                        \subseteq Range(CallsOf(local_calls, key))
            /\ rl_result'.ok <=>
                  Cardinality({i \in 1..Len(CallsOf(granted, key)) :
                      now - granted[key][i] < RATE_WINDOW_SECONDS})
                    < calls_per_minute
            /\ \A other \in RateKeys \ {key} :
                  /\ CallsOf(local_calls', other) = CallsOf(local_calls, other)
                  /\ CallsOf(granted', other) = CallsOf(granted, other)
                  /\ other \in DOMAIN local_calls' <=>
                        other \in DOMAIN local_calls
       ]_vars

C28_Witness ==
    /\ rl_result = [key |-> "a", ok |-> FALSE]
    /\ Len(CallsOf(granted, "a")) > calls_per_minute
    /\ Len(CallsOf(granted, "b")) = 1
    /\ now = RATE_WINDOW_SECONDS


\* ------------------------------------------------------------------------
\* Properties of the browser pool (specification SpecPool)
\* ------------------------------------------------------------------------
\* a browser exists, the session is marked valid and is not older than
\* max_session_age
Reusable ==
    /\ persistent_browser # None
    /\ session_valid
    /\ session_created_at # None
    /\ pool_now - session_created_at <= max_session_age

\* the step enters a get_browser block
EntersBlock == yielded_browser = None /\ yielded_browser' # None

\* the step leaves a get_browser block with an exception
LeavesBlockRaising ==
    yielded_browser # None /\ yielded_browser' = None /\ block_exit' = "raised"

\* the step is a call of mark_session_valid
IsMarkSessionValid ==
    /\ session_created_at' = pool_now
    /\ UNCHANGED <<persistent_browser, pool_now, browsers_created,
                   closed_browsers, yielded_browser, block_exit>>

\* C29: get_browser yields the existing browser if and only if a browser
\* exists, the session is valid and not older than max_session_age;
\* otherwise it closes the old browser, if any, and yields a new one with
\* the session invalid; only mark_session_valid makes the session valid; an
\* exception in the block leaves the session invalid, so that the next
\* get_browser is not a reuse.
C29_ReuseIffValidSession ==
    [][/\ EntersBlock =>
            IF Reusable
            THEN /\ yielded_browser' = persistent_browser
                 /\ persistent_browser' = persistent_browser
                 /\ session_valid'
                 /\ browsers_created' = browsers_created
                 /\ closed_browsers' = closed_browsers
            ELSE /\ yielded_browser' = browsers_created + 1
                 /\ browsers_created' = browsers_created + 1
                 /\ persistent_browser' = yielded_browser'
                 /\ persistent_browser # None =>
                       persistent_browser \in closed_browsers'
                 /\ ~session_valid'
                 /\ session_created_at' = None
       /\ (~session_valid /\ session_valid') => IsMarkSessionValid
       /\ LeavesBlockRaising => (~session_valid' /\ ~Reusable')
      ]_vars

C29_Witness ==
    /\ yielded_browser = 2
    /\ persistent_browser = 2
    /\ session_valid
    /\ pool_now - session_created_at = max_session_age
    /\ 1 \in closed_browsers
    /\ block_exit = "none"

\* C30: session_valid is true exactly when session_created_at is set.
C30_ValidIffCreatedAtSet ==
    session_valid <=> session_created_at # None

C30_Witness ==
    /\ block_exit = "raised"
    /\ browsers_created = 2
    /\ ~session_valid
    /\ session_created_at = None
    /\ persistent_browser = 2
    /\ pool_now > PoolTickSeconds

====
